---- MODULE Spec2Model ----
(***************************************************************************)
(* Telemetry pipeline of practica-3: a JMS queue feeds the backend's       *)
(* SensorReadingJmsListener, which validates each payload, saves it        *)
(* through SensorReadingService and broadcasts it on /topic/readings; the  *)
(* dashboard (main.jsx) loads /api/readings/recent once and appends live   *)
(* messages to bounded per-device series.                                  *)
(*                                                                         *)
(* JSON values are tuples whose first element is the JSON/JS type:         *)
(*   <<"undefined">>  an absent key          <<"null">>   JSON null        *)
(*   <<"num", n>>     a number               <<"str", s>> any other string *)
(*   <<"iso", t>>     ISO-8601 instant text  <<"local", t>> dd/MM/yyyy     *)
(*                                           HH:mm:ss text of wall time t  *)
(* Temperatures and humidities are whole numbers; instants are ticks.      *)
(***************************************************************************)
EXTENDS Integers, Sequences, FiniteSets, TLC

VARIABLES
    queue,          \* messages waiting on the destination notificacion_sensores
    sent,           \* number of messages published to the destination so far
    pc,             \* per listener instance: position inside consume
    cur,            \* per listener instance: the message being consumed
    entity,         \* per listener instance: result of toEntity / save
    log,            \* last log event written by a listener
    acked,          \* messages whose consume returned normally (acknowledged)
    origin,         \* origin[j]: the message whose consume inserted store[j]
    failedSaves,    \* messages for which sensorReadingService.save threw
    store,          \* table sensor_readings, in insertion order
    nextId,         \* IDENTITY generator of sensor_readings.id
    now,            \* the backend clock read by Instant.now()
    storeUp,        \* the database accepts inserts
    hubUp,          \* the message broker behind SimpMessagingTemplate accepts sends
    hub,            \* every response sent to /topic/readings, in order
    failures,       \* number of times consume has thrown
    readingsByDevice, \* dashboard state: device key -> series of readings
    status,         \* dashboard state: backendConnected, websocketConnected,
                    \* lastReading, error
    ws,             \* the dashboard's STOMP client: connecting, connected, closed
    fetch,          \* loadInitialReadings: pending, responded, done
    response,       \* the HTTP response of /api/readings/recent in flight
    seenLive,       \* responses the subscribe callback has received
    arrivals,       \* device key -> every reading appended since the map was
                    \* last replaced, in arrival order
    batches,        \* array messages sent to /topic/readings by other publishers
    subs,           \* subscriptions to /topic/readings on the current connection
    wsDelay,        \* milliseconds the STOMP client waits before it reconnects
    wsFailures,     \* connections lost or failed since the last onConnect
    wsDrops,        \* connections lost or failed so far
    missed,         \* ids of the responses broadcast while the dashboard had no subscription
    received,       \* the body of the last message the subscription callback got
    gpc,            \* simulator: position inside main / publishLoop
    config,         \* simulator: the AppConfig that load returned
    link,           \* the broker as the simulator's connection finds it
    epoch,          \* number of times the broker has changed state
    gclock,         \* simulator: milliseconds elapsed, advanced by its sleeps
    reconnectDelay, \* failover transport: the delay before its next attempt
    failStreak,     \* consecutive failed connection attempts
    firstFailAt,    \* gclock at the first failure of the current streak
    genFailures,    \* failed attempts and failed sends so far
    sample,         \* simulator: the payload built and not yet sent
    published       \* what producer.send has delivered, with when it was built

ingestVars == <<queue, sent, pc, cur, entity, log, acked, origin, failedSaves,
                store, nextId, now, storeUp, hubUp, hub, failures>>

wsVars == <<subs, wsDelay, wsFailures, wsDrops, missed>>

clientVars == <<readingsByDevice, status, ws, fetch, response, seenLive,
                arrivals, batches, wsVars, received>>

genVars == <<gpc, config, link, epoch, gclock, reconnectDelay, failStreak,
             firstFailAt, genFailures, sample, published>>

vars == <<ingestVars, clientVars, genVars>>

-----------------------------------------------------------------------------
(* Bounds of the model *)

MaxMsgs == 2        \* messages published to the queue in Spec
MaxFailures == 1    \* redeliveries the channel performs before it stops delivering
MaxQueue == 2       \* messages the simulator leaves waiting on the queue
MaxLoad == 52       \* samples the simulator publishes in SpecLoad
MaxLive == 3        \* samples the simulator publishes in SpecDash
PreRows == 52       \* rows already in sensor_readings when the dashboard opens
BatchLen == 61      \* readings in an array message
MaxAppend == 65     \* readings other publishers send for one device
MaxBatches == 1     \* array messages of BatchLen readings
MaxOutages == 3     \* changes of the broker's state the simulator lives through
MaxGenFailures == 4 \* failed attempts and sends of the simulator
MaxTicks == 2       \* samples the simulator publishes in SpecGen
MaxDrops == 2       \* connections the dashboard loses or fails to open
MaxOdd == 2         \* messages with odd numeric fields
MaxAlias == 2       \* messages that name the device under an alias

Instances == {1, 2} \* running listener instances

-----------------------------------------------------------------------------
(* JSON values *)

JUndefined == <<"undefined">>
JNull == <<"null">>
JNum(n) == <<"num", n>>
JStr(s) == <<"str", s>>
JIso(t) == <<"iso", t>>
JLocal(t) == <<"local", t>>

IsNullish(v) == v = JNull \/ v = JUndefined

-----------------------------------------------------------------------------
(* Wire payload and SensorReadingJmsPayload *)

\* text of a JMS message: not JSON at all, the JSON literal null, or an object
Body(kind, fecha, dev, temp, hum) ==
    [kind |-> kind, fechaGeneracion |-> fecha, IdDispositivo |-> dev,
     temperatura |-> temp, humedad |-> hum]

Malformed == Body("malformed", JNull, JNull, JNull, JNull)
JsonNull == Body("null", JNull, JNull, JNull, JNull)
Object(fecha, dev, temp, hum) == Body("object", fecha, dev, temp, hum)

NoMsg == [mid |-> 0, body |-> JsonNull]

TEMP_MIN == -80
TEMP_MAX == 120
HUM_MIN == 0
HUM_MAX == 100

\* @NotBlank on a String
IsBlank(v) == IsNullish(v) \/ v = JStr("") \/ v = JStr(" ")

\* Violations without the @Max(120) constraint on temperatura
Violations_noTempMax(p) ==
    (IF IsBlank(p.fechaGeneracion) THEN {"fechaGeneracion NotBlank"} ELSE {})
    \cup (IF IsNullish(p.IdDispositivo) THEN {"idDispositivo NotNull"} ELSE {})
    \cup (IF IsNullish(p.temperatura) THEN {"temperatura NotNull"} ELSE {})
    \cup (IF ~IsNullish(p.temperatura) /\ p.temperatura[2] < TEMP_MIN
          THEN {"temperatura Min"} ELSE {})
    \cup (IF IsNullish(p.humedad) THEN {"humedad NotNull"} ELSE {})
    \cup (IF ~IsNullish(p.humedad) /\ p.humedad[2] < HUM_MIN
          THEN {"humedad Min"} ELSE {})
    \cup (IF ~IsNullish(p.humedad) /\ p.humedad[2] > HUM_MAX
          THEN {"humedad Max"} ELSE {})

\* validator.validate(payload): the set of violated constraints
Violations(p) ==
    (IF IsBlank(p.fechaGeneracion) THEN {"fechaGeneracion NotBlank"} ELSE {})
    \cup (IF IsNullish(p.IdDispositivo) THEN {"idDispositivo NotNull"} ELSE {})
    \cup (IF IsNullish(p.temperatura) THEN {"temperatura NotNull"} ELSE {})
    \cup (IF ~IsNullish(p.temperatura) /\ p.temperatura[2] < TEMP_MIN
          THEN {"temperatura Min"} ELSE {})
    \cup (IF ~IsNullish(p.temperatura) /\ p.temperatura[2] > TEMP_MAX
          THEN {"temperatura Max"} ELSE {})
    \cup (IF IsNullish(p.humedad) THEN {"humedad NotNull"} ELSE {})
    \cup (IF ~IsNullish(p.humedad) /\ p.humedad[2] < HUM_MIN
          THEN {"humedad Min"} ELSE {})
    \cup (IF ~IsNullish(p.humedad) /\ p.humedad[2] > HUM_MAX
          THEN {"humedad Max"} ELSE {})

\* validatePayload throws ConstraintViolationException
validatePayloadThrows(p) ==
    p.kind = "null" \/ Violations(p) # {}

\* offset of ZoneId.systemDefault() from UTC, in ticks
ZONE_OFFSET == 1

\* Instant.parse(text) succeeds
InstantParses(v) == v[1] = "iso"

\* LocalDateTime.parse(text, ENDPOINT_DATE_FORMATTER) succeeds
LocalParses(v) == v[1] = "local"

\* parseGeneratedAt throws DateTimeParseException
parseGeneratedAtThrows(v) == ~InstantParses(v) /\ ~LocalParses(v)

\* parseGeneratedAt that reads the local date and time as UTC
parseGeneratedAt_utc(v) == v[2]

\* parseGeneratedAt: the instant, when it does not throw
parseGeneratedAt(v) ==
    IF InstantParses(v) THEN v[2] ELSE v[2] - ZONE_OFFSET

NoEntity ==
    [id |-> 0, generatedAt |-> 0, deviceId |-> JNull, temperature |-> JNull,
     humidity |-> JNull, receivedAt |-> 0]

\* toEntity with temperature and humidity exchanged
toEntity_swapped(p, clock) ==
    [id |-> 0,
     generatedAt |-> parseGeneratedAt(p.fechaGeneracion),
     deviceId |-> p.IdDispositivo,
     temperature |-> p.humedad,
     humidity |-> p.temperatura,
     receivedAt |-> clock]

\* toEntity: a SensorReading without id
toEntity(p, clock) ==
    [id |-> 0,
     generatedAt |-> parseGeneratedAt(p.fechaGeneracion),
     deviceId |-> p.IdDispositivo,
     temperature |-> p.temperatura,
     humidity |-> p.humedad,
     receivedAt |-> clock]

\* save that keeps the id the entity came with
save_keepsEntityId(table, reading, id) == Append(table, reading)

\* save whose insert is not yet visible when it returns
save_uncommitted(table, reading, id) == table

\* repository.save: insert with a generated id
save(table, reading, id) == Append(table, [reading EXCEPT !.id = id])

\* SensorReadingResponse.fromEntity
fromEntity(reading) ==
    [id |-> reading.id,
     generatedAt |-> reading.generatedAt,
     deviceId |-> reading.deviceId,
     temperature |-> reading.temperature,
     humidity |-> reading.humidity,
     receivedAt |-> reading.receivedAt]

LogLine(event, m) == [event |-> event, msg |-> m]

-----------------------------------------------------------------------------
(* Inputs *)

GoodIso == Object(JIso(5), JNum(1), JNum(-80), JNum(100))
GoodLocal == Object(JLocal(7), JNum(2), JNum(120), JNum(0))
Temp150 == Object(JIso(5), JNum(1), JNum(150), JNum(50))
DevNull == Object(JIso(5), JNull, JNum(25), JNum(50))
LowBlank == Object(JStr(" "), JNum(1), JNum(-81), JNum(101))
BadDate == Object(JStr("2024-13-45"), JNum(1), JNum(25), JNum(50))

Payloads ==
    {GoodIso, GoodLocal, Temp150, DevNull, LowBlank, BadDate, JsonNull, Malformed}

-----------------------------------------------------------------------------
(* Query API: GET /api/readings/recent *)

TOP == 50

\* row put at its place in a sequence sorted by receivedAt, newest first
InsertDesc(sorted, row) ==
    LET before == Cardinality({k \in 1..Len(sorted) :
                                  sorted[k].receivedAt >= row.receivedAt})
    IN  SubSeq(sorted, 1, before) \o <<row>> \o SubSeq(sorted, before + 1, Len(sorted))

\* rows put one after the other into a sorted sequence
RECURSIVE InsertAll(_, _)
InsertAll(sorted, rows) ==
    IF Len(rows) = 0 THEN sorted
    ELSE IF Len(rows) = 1 THEN InsertDesc(sorted, rows[1])
    ELSE LET half == Len(rows) \div 2
             first == InsertAll(sorted, SubSeq(rows, 1, half))
         IN  IF Len(first) >= Len(sorted)
             THEN InsertAll(first, SubSeq(rows, half + 1, Len(rows)))
             ELSE first

\* ORDER BY received_at DESC
OrderByReceivedAtDesc(table) == InsertAll(<<>>, table)

FirstN(seq, n) == SubSeq(seq, 1, IF Len(seq) < n THEN Len(seq) ELSE n)

\* the oldest 50 rows instead of the newest
findTop50_oldest(table) ==
    LET sorted == OrderByReceivedAtDesc(table)
    IN  SubSeq(sorted, IF Len(sorted) > TOP THEN Len(sorted) - TOP + 1 ELSE 1,
               Len(sorted))

\* repository.findTop50ByOrderByReceivedAtDesc
findTop50ByOrderByReceivedAtDesc(table) ==
    FirstN(OrderByReceivedAtDesc(table), TOP)

\* SensorReadingController.getRecentReadings
getRecentReadings(table) ==
    LET rows == findTop50ByOrderByReceivedAtDesc(table)
    IN  [k \in 1..Len(rows) |-> fromEntity(rows[k])]

\* WHERE device_id = ?
ByDeviceId(table, deviceId) ==
    SelectSeq(table, LAMBDA row : row.deviceId = deviceId)

\* the derived query without its device condition
findTop50ByDeviceId_unfiltered(table, deviceId) ==
    FirstN(OrderByReceivedAtDesc(table), TOP)

\* repository.findTop50ByDeviceIdOrderByReceivedAtDesc
findTop50ByDeviceIdOrderByReceivedAtDesc(table, deviceId) ==
    FirstN(OrderByReceivedAtDesc(ByDeviceId(table, deviceId)), TOP)

\* SensorReadingController.getByDevice; the path variable is taken as the
\* Integer that SensorReadingService.getByDevice receives
getByDevice(table, deviceId) ==
    LET rows == findTop50ByDeviceIdOrderByReceivedAtDesc(table, deviceId)
    IN  [k \in 1..Len(rows) |-> fromEntity(rows[k])]

-----------------------------------------------------------------------------
(* Dashboard (main.jsx): pure functions *)

MAX_POINTS == 60

\* every key the dashboard looks at, none of them present
NoKeys ==
    [deviceId |-> JUndefined, idDispositivo |-> JUndefined,
     IdDispositivo |-> JUndefined, deviceID |-> JUndefined,
     timestamp |-> JUndefined, generatedAt |-> JUndefined,
     fechaGeneracion |-> JUndefined, fechaGeneracionAcento |-> JUndefined,
     time |-> JUndefined, temperatura |-> JUndefined,
     temperature |-> JUndefined, humedad |-> JUndefined, humidity |-> JUndefined]

\* a JSON object as the dashboard reads it
Raw(fields) == fields @@ NoKeys

\* the JSON text of a SensorReadingResponse
ResponseJson(r) ==
    Raw([deviceId |-> r.deviceId, generatedAt |-> JIso(r.generatedAt),
         temperature |-> r.temperature, humidity |-> r.humidity])

\* JavaScript truthiness
Truthy(v) ==
    CASE v[1] = "undefined" -> FALSE
      [] v[1] = "null" -> FALSE
      [] v[1] = "num" -> v[2] # 0
      [] v[1] = "str" -> v[2] # ""
      [] OTHER -> TRUE

toDeviceId(reading) ==
    IF Truthy(reading.deviceId) THEN reading.deviceId
    ELSE IF Truthy(reading.idDispositivo) THEN reading.idDispositivo
    ELSE IF Truthy(reading.IdDispositivo) THEN reading.IdDispositivo
    ELSE IF Truthy(reading.deviceID) THEN reading.deviceID
    ELSE JStr("desconocido")

\* clock: the value of new Date().toISOString()
toTimestamp(reading, clock) ==
    IF Truthy(reading.timestamp) THEN reading.timestamp
    ELSE IF Truthy(reading.generatedAt) THEN reading.generatedAt
    ELSE IF Truthy(reading.fechaGeneracion) THEN reading.fechaGeneracion
    ELSE IF Truthy(reading.fechaGeneracionAcento) THEN reading.fechaGeneracionAcento
    ELSE IF Truthy(reading.time) THEN reading.time
    ELSE JIso(clock)

\* the strings Number() converts to a number: numeric literals, and the
\* empty and the blank string, which it converts to 0
NumericStrings == [s \in {"21", "", " "} |-> IF s = "21" THEN 21 ELSE 0]

NaN == <<"nan">>

\* Number(value): null is 0, undefined and any other string are NaN
JsNumber(value) ==
    CASE value[1] = "num" -> value
      [] value[1] = "null" -> JNum(0)
      [] value[1] = "str" /\ value[2] \in DOMAIN NumericStrings
            -> JNum(NumericStrings[value[2]])
      [] OTHER -> NaN

\* Number.isFinite(parsed) ? parsed : null
toNumber(value) ==
    LET parsed == JsNumber(value)
    IN  IF parsed[1] = "num" THEN parsed ELSE JNull

\* a ?? b
Coalesce(a, b) == IF IsNullish(a) THEN b ELSE a

normalizeReading(raw, clock) ==
    [deviceId |-> toDeviceId(raw),
     timestamp |-> toTimestamp(raw, clock),
     temperatura |-> toNumber(Coalesce(raw.temperatura, raw.temperature)),
     humedad |-> toNumber(Coalesce(raw.humedad, raw.humidity))]

NoReading ==
    [deviceId |-> JNull, timestamp |-> JNull, temperatura |-> JNull,
     humedad |-> JNull]

\* the property name an object key is converted to
KeyOf(v) == IF v[1] = "str" THEN v[2] ELSE ToString(v[2])

LastN(seq, n) == IF Len(seq) <= n THEN seq ELSE SubSeq(seq, Len(seq) - n + 1, Len(seq))

\* addReading without the slice
addReading_unbounded(state, reading) ==
    IF IsNullish(reading.deviceId) THEN state
    ELSE LET key == KeyOf(reading.deviceId)
             current == IF key \in DOMAIN state THEN state[key] ELSE <<>>
             updated == Append(current, reading)
         IN  (key :> updated) @@ state

\* addReading with slice(0, MAX_POINTS): keeps the oldest
addReading_keepsOldest(state, reading) ==
    IF IsNullish(reading.deviceId) THEN state
    ELSE LET key == KeyOf(reading.deviceId)
             current == IF key \in DOMAIN state THEN state[key] ELSE <<>>
             updated == FirstN(Append(current, reading), MAX_POINTS)
         IN  (key :> updated) @@ state

addReading(state, reading) ==
    IF IsNullish(reading.deviceId) THEN state
    ELSE LET key == KeyOf(reading.deviceId)
             current == IF key \in DOMAIN state THEN state[key] ELSE <<>>
             updated == LastN(Append(current, reading), MAX_POINTS)
         IN  (key :> updated) @@ state

\* readings.forEach((reading) => { next = addReading(next, reading) }), the
\* readings taken in order, first half then second half
RECURSIVE AddAll(_, _)
AddAll(state, readings) ==
    IF Len(readings) = 0 THEN state
    ELSE IF Len(readings) = 1 THEN addReading(state, readings[1])
    ELSE LET half == Len(readings) \div 2
             first == AddAll(state, SubSeq(readings, 1, half))
         IN  IF DOMAIN state \subseteq DOMAIN first
             THEN AddAll(first, SubSeq(readings, half + 1, Len(readings)))
             ELSE first

\* the history of appends, kept beside the state
Track(arr, r) ==
    IF IsNullish(r.deviceId) THEN arr
    ELSE LET key == KeyOf(r.deviceId)
         IN  (key :> Append(IF key \in DOMAIN arr THEN arr[key] ELSE <<>>, r)) @@ arr

RECURSIVE TrackAll(_, _)
TrackAll(arr, readings) ==
    IF Len(readings) = 0 THEN arr
    ELSE IF Len(readings) = 1 THEN Track(arr, readings[1])
    ELSE LET half == Len(readings) \div 2
             first == TrackAll(arr, SubSeq(readings, 1, half))
         IN  IF DOMAIN arr \subseteq DOMAIN first
             THEN TrackAll(first, SubSeq(readings, half + 1, Len(readings)))
             ELSE first

EmptyMap == [k \in {} |-> <<>>]

\* a STOMP message body: empty, not JSON, one object, or an array of objects
WsBody(kind, items) == [kind |-> kind, items |-> items]

\* no message yet
NoBody == WsBody("empty", <<>>)

\* parseWsMessage that answers an empty list where JSON.parse throws
parseWsMessage_emptyList(body, clock) ==
    IF body.kind \in {"empty", "null"}
    THEN [ok |-> FALSE, readings |-> <<>>]
    ELSE [ok |-> TRUE,
          readings |-> [k \in 1..Len(body.items) |-> normalizeReading(body.items[k], clock)]]

\* parseWsMessage: null, or the normalized readings; null for an empty body,
\* for a body JSON.parse throws on, and for the JSON literal null, on which
\* normalizeReading throws inside the try
parseWsMessage(body, clock) ==
    IF body.kind \in {"empty", "malformed", "null"}
    THEN [ok |-> FALSE, readings |-> <<>>]
    ELSE [ok |-> TRUE,
          readings |-> [k \in 1..Len(body.items) |-> normalizeReading(body.items[k], clock)]]

Last(seq) == seq[Len(seq)]

\* a callback that replaces the state once per reading and is seen after the
\* first replacement
Subscriber_firstOnly(body) ==
    LET parsed == parseWsMessage(body, now) IN
    /\ received' = body
    /\ IF ~parsed.ok
       THEN UNCHANGED <<readingsByDevice, status, arrivals>>
       ELSE /\ readingsByDevice' = AddAll(readingsByDevice, SubSeq(parsed.readings, 1, 1))
            /\ arrivals' = TrackAll(arrivals, SubSeq(parsed.readings, 1, 1))
            /\ status' = [status EXCEPT
                             !.backendConnected = TRUE,
                             !.lastReading = IF parsed.readings # <<>>
                                             THEN Last(parsed.readings) ELSE @]

\* the callback of client.subscribe('/topic/readings', ...)
Subscriber(body) ==
    LET parsed == parseWsMessage(body, now) IN
    /\ received' = body
    /\ IF ~parsed.ok
       THEN UNCHANGED <<readingsByDevice, status, arrivals>>
       ELSE /\ readingsByDevice' = AddAll(readingsByDevice, parsed.readings)
            /\ arrivals' = TrackAll(arrivals, parsed.readings)
            /\ status' = [status EXCEPT
                             !.backendConnected = TRUE,
                             !.lastReading = IF parsed.readings # <<>>
                                             THEN Last(parsed.readings) ELSE @]

-----------------------------------------------------------------------------
(* Transport Channel *)

\* a producer puts a text message on the destination
Publish(b) ==
    /\ UNCHANGED <<clientVars, genVars>>
    /\ sent < MaxMsgs
    /\ sent' = sent + 1
    /\ queue' = Append(queue, [mid |-> sent + 1, body |-> b])
    /\ UNCHANGED <<pc, cur, entity, log, acked, origin, failedSaves, store, nextId,
                   now, storeUp, hubUp, hub, failures>>

\* a producer puts a text message on a destination that has already carried
\* PreRows messages
PublishLate(b) ==
    /\ UNCHANGED <<clientVars, genVars>>
    /\ sent < PreRows + MaxMsgs
    /\ sent' = sent + 1
    /\ queue' = Append(queue, [mid |-> sent + 1, body |-> b])
    /\ UNCHANGED <<pc, cur, entity, log, acked, origin, failedSaves, store, nextId,
                   now, storeUp, hubUp, hub, failures>>

DEVICE_ID == 1

\* buildPayload that writes the device under the key deviceId, which the
\* payload class does not map
buildPayload_deviceIdKey(tick) ==
    Object(JLocal(tick), JNull, JNum(18 + ((tick * 7) % 17)),
           JNum(30 + ((tick * 13) % 51)))

\* buildPayload at the simulator's tick-th publication; Random is a seeded
\* generator, so its values are a function of the tick
buildPayload(tick) ==
    Object(JLocal(tick), JNum(DEVICE_ID), JNum(18 + ((tick * 7) % 17)),
           JNum(30 + ((tick * 13) % 51)))

\* publishLoop: producer.send(message)
SimPublish(limit) ==
    /\ UNCHANGED <<clientVars, genVars>>
    /\ sent < limit
    /\ Len(queue) < MaxQueue
    /\ sent' = sent + 1
    /\ queue' = Append(queue, [mid |-> sent + 1, body |-> buildPayload(sent + 1)])
    /\ UNCHANGED <<pc, cur, entity, log, acked, origin, failedSaves, store, nextId,
                   now, storeUp, hubUp, hub, failures>>

\* the listener container hands the head of the queue to consume
\* a listener that is handed the newest message of the queue
Receive_newestFirst(i) ==
    /\ UNCHANGED <<clientVars, genVars>>
    /\ pc[i] = "idle"
    /\ queue # <<>>
    /\ cur' = [cur EXCEPT ![i] = queue[Len(queue)]]
    /\ queue' = SubSeq(queue, 1, Len(queue) - 1)
    /\ pc' = [pc EXCEPT ![i] = "received"]
    /\ UNCHANGED <<sent, entity, log, acked, origin, failedSaves, store, nextId,
                   now, storeUp, hubUp, hub, failures>>

Receive(i) ==
    /\ UNCHANGED <<clientVars, genVars>>
    /\ pc[i] = "idle"
    /\ queue # <<>>
    /\ cur' = [cur EXCEPT ![i] = Head(queue)]
    /\ queue' = Tail(queue)
    /\ pc' = [pc EXCEPT ![i] = "received"]
    /\ UNCHANGED <<sent, entity, log, acked, origin, failedSaves, store, nextId,
                   now, storeUp, hubUp, hub, failures>>

\* consume returned normally: the message is acknowledged
Return(i, event) ==
    /\ pc' = [pc EXCEPT ![i] = "idle"]
    /\ log' = LogLine(event, cur[i])
    /\ acked' = acked \cup {cur[i]}
    /\ cur' = [cur EXCEPT ![i] = NoMsg]
    /\ entity' = [entity EXCEPT ![i] = NoEntity]
    /\ queue' = queue
    /\ failures' = failures

\* consume threw: the session rolls back and the message is redelivered
Throw(i) ==
    /\ failures < MaxFailures
    /\ failures' = failures + 1
    /\ pc' = [pc EXCEPT ![i] = "idle"]
    /\ log' = LogLine("jms_reading_failed", cur[i])
    /\ queue' = <<cur[i]>> \o queue
    /\ cur' = [cur EXCEPT ![i] = NoMsg]
    /\ entity' = [entity EXCEPT ![i] = NoEntity]
    /\ acked' = acked

-----------------------------------------------------------------------------
(* SensorReadingJmsListener.consume, in three steps *)

\* ConsumeMap without the catch of ConstraintViolationException | DateTimeParseException
ConsumeMap_rethrows(i) ==
    /\ UNCHANGED <<clientVars, genVars>>
    /\ pc[i] = "received"
    /\ LET p == cur[i].body IN
       IF p.kind = "malformed" \/ validatePayloadThrows(p)
          \/ parseGeneratedAtThrows(p.fechaGeneracion)
       THEN /\ Throw(i)
            /\ now' = now
       ELSE /\ entity' = [entity EXCEPT ![i] = toEntity(p, now)]
            /\ now' = now + 1
            /\ pc' = [pc EXCEPT ![i] = "mapped"]
            /\ UNCHANGED <<queue, cur, log, acked, failures>>
    /\ UNCHANGED <<sent, origin, failedSaves, store, nextId, storeUp, hubUp, hub>>

\* objectMapper.readValue, validatePayload, toEntity
ConsumeMap(i) ==
    /\ UNCHANGED <<clientVars, genVars>>
    /\ pc[i] = "received"
    /\ LET p == cur[i].body IN
       IF p.kind = "malformed"
       THEN /\ Throw(i)
            /\ now' = now
       ELSE IF validatePayloadThrows(p) \/ parseGeneratedAtThrows(p.fechaGeneracion)
       THEN /\ Return(i, "jms_reading_rejected")
            /\ now' = now
       ELSE /\ entity' = [entity EXCEPT ![i] = toEntity(p, now)]
            /\ now' = now + 1
            /\ pc' = [pc EXCEPT ![i] = "mapped"]
            /\ UNCHANGED <<queue, cur, log, acked, failures>>
    /\ UNCHANGED <<sent, origin, failedSaves, store, nextId, storeUp, hubUp, hub>>

\* ConsumeSave that swallows the failure of save
ConsumeSave_swallows(i) ==
    /\ UNCHANGED <<clientVars, genVars>>
    /\ pc[i] = "mapped"
    /\ IF storeUp
       THEN /\ store' = save(store, entity[i], nextId)
            /\ nextId' = nextId + 1
            /\ entity' = [entity EXCEPT ![i] = [entity[i] EXCEPT !.id = nextId]]
            /\ origin' = Append(origin, cur[i])
            /\ failedSaves' = failedSaves
            /\ pc' = [pc EXCEPT ![i] = "saved"]
            /\ UNCHANGED <<queue, cur, log, acked, failures>>
       ELSE /\ Return(i, "jms_reading_rejected")
            /\ failedSaves' = failedSaves \cup {cur[i]}
            /\ UNCHANGED <<store, nextId, origin>>
    /\ UNCHANGED <<sent, now, storeUp, hubUp, hub>>

\* sensorReadingService.save
ConsumeSave(i) ==
    /\ UNCHANGED <<clientVars, genVars>>
    /\ pc[i] = "mapped"
    /\ IF storeUp
       THEN /\ store' = save(store, entity[i], nextId)
            /\ nextId' = nextId + 1
            /\ entity' = [entity EXCEPT ![i] = [entity[i] EXCEPT !.id = nextId]]
            /\ origin' = Append(origin, cur[i])
            /\ failedSaves' = failedSaves
            /\ pc' = [pc EXCEPT ![i] = "saved"]
            /\ UNCHANGED <<queue, cur, log, acked, failures>>
       ELSE /\ Throw(i)
            /\ failedSaves' = failedSaves \cup {cur[i]}
            /\ UNCHANGED <<store, nextId, origin>>
    /\ UNCHANGED <<sent, now, storeUp, hubUp, hub>>

\* fromEntity, messagingTemplate.convertAndSend("/topic/readings", response)
\* consume that logs a failed broadcast and returns
ConsumeBroadcast_swallows(i) ==
    /\ pc[i] = "saved"
    /\ IF hubUp
       THEN /\ hub' = Append(hub, fromEntity(entity[i]))
            /\ Return(i, "jms_reading_processed")
            /\ IF ws = "connected"
               THEN /\ Subscriber(WsBody("object", <<ResponseJson(fromEntity(entity[i]))>>))
                    /\ seenLive' = seenLive \cup {fromEntity(entity[i])}
                    /\ UNCHANGED missed
               ELSE /\ missed' = missed \cup {entity[i].id}
                    /\ UNCHANGED <<readingsByDevice, status, arrivals, seenLive,
                                   received>>
       ELSE /\ Return(i, "jms_reading_failed")
            /\ UNCHANGED <<hub, readingsByDevice, status, arrivals, seenLive, missed,
                           received>>
    /\ UNCHANGED <<ws, fetch, response, batches>>
    /\ UNCHANGED <<subs, wsDelay, wsFailures, wsDrops>>
    /\ UNCHANGED <<sent, origin, failedSaves, store, nextId, now, storeUp, hubUp>>
    /\ UNCHANGED genVars

ConsumeBroadcast(i) ==
    /\ pc[i] = "saved"
    /\ IF hubUp
       THEN /\ hub' = Append(hub, fromEntity(entity[i]))
            /\ Return(i, "jms_reading_processed")
            /\ IF ws = "connected"
               THEN /\ Subscriber(WsBody("object", <<ResponseJson(fromEntity(entity[i]))>>))
                    /\ seenLive' = seenLive \cup {fromEntity(entity[i])}
                    /\ UNCHANGED missed
               ELSE /\ missed' = missed \cup {entity[i].id}
                    /\ UNCHANGED <<readingsByDevice, status, arrivals, seenLive,
                                   received>>
       ELSE /\ Throw(i)
            /\ UNCHANGED <<hub, readingsByDevice, status, arrivals, seenLive, missed,
                           received>>
    /\ UNCHANGED <<ws, fetch, response, batches>>
    /\ UNCHANGED <<subs, wsDelay, wsFailures, wsDrops>>
    /\ UNCHANGED <<sent, origin, failedSaves, store, nextId, now, storeUp, hubUp>>
    /\ UNCHANGED genVars

-----------------------------------------------------------------------------
(* Infrastructure *)

\* the database goes down or comes back; only a save observes it, so the
\* change is taken when a listener is about to save
StoreToggle ==
    /\ UNCHANGED <<clientVars, genVars>>
    /\ storeUp => failures < MaxFailures
    /\ \E i \in Instances : pc[i] = "mapped"
    /\ storeUp' = ~storeUp
    /\ UNCHANGED <<queue, sent, pc, cur, entity, log, acked, origin, failedSaves,
                   store, nextId, now, hubUp, hub, failures>>

\* the message broker of the topic goes down or comes back, when a listener
\* is about to broadcast
HubToggle ==
    /\ UNCHANGED <<clientVars, genVars>>
    /\ hubUp => failures < MaxFailures
    /\ \E i \in Instances : pc[i] = "saved"
    /\ hubUp' = ~hubUp
    /\ UNCHANGED <<queue, sent, pc, cur, entity, log, acked, origin, failedSaves,
                   store, nextId, now, storeUp, hub, failures>>

-----------------------------------------------------------------------------
(* Dashboard (main.jsx): effects *)

NoResponse == [kind |-> "none", payload |-> <<>>]

\* the backend answers GET /api/readings/recent
FetchServe ==
    /\ fetch = "pending"
    /\ fetch' = "responded"
    /\ response' = IF storeUp
                   THEN [kind |-> "ok", payload |-> getRecentReadings(store)]
                   ELSE [kind |-> "http_error", payload |-> <<>>]
    /\ UNCHANGED <<readingsByDevice, status, ws, seenLive, arrivals, batches>>
    /\ UNCHANGED <<ingestVars, genVars>>
    /\ UNCHANGED <<wsVars, received>>

\* fetch rejects, or response.json() rejects
FetchFail(kind) ==
    /\ fetch = "pending"
    /\ fetch' = "responded"
    /\ response' = [kind |-> kind, payload |-> <<>>]
    /\ UNCHANGED <<readingsByDevice, status, ws, seenLive, arrivals, batches>>
    /\ UNCHANGED <<ingestVars, genVars>>
    /\ UNCHANGED <<wsVars, received>>

\* loadInitialReadings whose catch block empties the series
FetchApply_clearsOnError ==
    /\ fetch = "responded"
    /\ fetch' = "done"
    /\ IF response.kind = "ok"
       THEN LET normalized ==
                    [k \in 1..Len(response.payload) |->
                        normalizeReading(ResponseJson(response.payload[k]), now)]
            IN  /\ readingsByDevice' = AddAll(EmptyMap, normalized)
                /\ arrivals' = TrackAll(EmptyMap, normalized)
                /\ status' = [status EXCEPT
                                 !.backendConnected = TRUE,
                                 !.error = JNull,
                                 !.lastReading = IF normalized # <<>>
                                                 THEN Last(normalized) ELSE @]
       ELSE /\ status' = [status EXCEPT
                             !.backendConnected = FALSE,
                             !.error = JStr("No se pudo cargar historico")]
            /\ readingsByDevice' = EmptyMap
            /\ UNCHANGED arrivals
    /\ UNCHANGED <<ws, response, seenLive, batches>>
    /\ UNCHANGED <<ingestVars, genVars>>
    /\ UNCHANGED <<wsVars, received>>

\* loadInitialReadings after the awaits
FetchApply ==
    /\ fetch = "responded"
    /\ fetch' = "done"
    /\ IF response.kind = "ok"
       THEN LET normalized ==
                    [k \in 1..Len(response.payload) |->
                        normalizeReading(ResponseJson(response.payload[k]), now)]
            IN  /\ readingsByDevice' = AddAll(EmptyMap, normalized)
                /\ arrivals' = TrackAll(EmptyMap, normalized)
                /\ status' = [status EXCEPT
                                 !.backendConnected = TRUE,
                                 !.error = JNull,
                                 !.lastReading = IF normalized # <<>>
                                                 THEN Last(normalized) ELSE @]
       ELSE /\ status' = [status EXCEPT
                             !.backendConnected = FALSE,
                             !.error = JStr("No se pudo cargar historico")]
            /\ UNCHANGED <<readingsByDevice, arrivals>>
    /\ UNCHANGED <<ws, response, seenLive, batches>>
    /\ UNCHANGED <<ingestVars, genVars>>
    /\ UNCHANGED <<wsVars, received>>

\* onConnect that loads the history again on every connection
onConnect_refetches ==
    /\ ws = "connecting"
    /\ ws' = "connected"
    /\ status' = [status EXCEPT !.websocketConnected = TRUE, !.error = JNull]
    /\ subs' = subs + 1
    /\ wsFailures' = 0
    /\ fetch' = IF fetch = "done" THEN "pending" ELSE fetch
    /\ UNCHANGED <<readingsByDevice, response, seenLive, arrivals, batches>>
    /\ UNCHANGED <<wsDelay, wsDrops, missed, received>>
    /\ UNCHANGED <<ingestVars, genVars>>

\* onConnect of the STOMP client
onConnect ==
    /\ ws = "connecting"
    /\ ws' = "connected"
    /\ status' = [status EXCEPT !.websocketConnected = TRUE, !.error = JNull]
    /\ subs' = subs + 1
    /\ wsFailures' = 0
    /\ UNCHANGED <<readingsByDevice, fetch, response, seenLive, arrivals, batches>>
    /\ UNCHANGED <<wsDelay, wsDrops, missed, received>>
    /\ UNCHANGED <<ingestVars, genVars>>

\* reconnectDelay: 3000 of the STOMP client
RECONNECT_DELAY == 3000

\* a reconnect delay that doubles with every failure in a row
scheduleReconnect_backoff(failuresInARow) ==
    IF failuresInARow = 0 THEN RECONNECT_DELAY
    ELSE IF failuresInARow = 1 THEN RECONNECT_DELAY * 2
    ELSE RECONNECT_DELAY * 4

\* the STOMP client schedules its next connection attempt
scheduleReconnect(failuresInARow) == RECONNECT_DELAY

\* onWebSocketError that marks the backend as unreachable too
onWebSocketError_clearsBackend ==
    /\ ws \in {"connecting", "connected"}
    /\ wsDrops < MaxDrops
    /\ ws' = "failing"
    /\ status' = [status EXCEPT
                     !.websocketConnected = FALSE,
                     !.backendConnected = FALSE,
                     !.error = JStr("No se pudo conectar al WebSocket")]
    /\ UNCHANGED <<readingsByDevice, fetch, response, seenLive, arrivals, batches>>
    /\ UNCHANGED <<wsVars, received>>
    /\ UNCHANGED <<ingestVars, genVars>>

\* onWebSocketError: the socket reports an error; its close follows
onWebSocketError ==
    /\ ws \in {"connecting", "connected"}
    /\ wsDrops < MaxDrops
    /\ ws' = "failing"
    /\ status' = [status EXCEPT
                     !.websocketConnected = FALSE,
                     !.error = JStr("No se pudo conectar al WebSocket")]
    /\ UNCHANGED <<readingsByDevice, fetch, response, seenLive, arrivals, batches>>
    /\ UNCHANGED <<wsVars, received>>
    /\ UNCHANGED <<ingestVars, genVars>>

\* onStompError: the broker sends an ERROR frame and then closes the connection
onStompError ==
    /\ ws = "connected"
    /\ wsDrops < MaxDrops
    /\ ws' = "failing"
    /\ status' = [status EXCEPT
                     !.websocketConnected = FALSE,
                     !.error = JStr("Broker error")]
    /\ UNCHANGED <<readingsByDevice, fetch, response, seenLive, arrivals, batches>>
    /\ UNCHANGED <<wsVars, received>>
    /\ UNCHANGED <<ingestVars, genVars>>

\* onWebSocketClose: the socket is closed, or a connection attempt failed;
\* the subscriptions of the connection are gone and a reconnect is scheduled
onWebSocketClose ==
    /\ ws \in {"connecting", "connected", "failing"}
    /\ ws = "failing" \/ wsDrops < MaxDrops
    /\ ws' = "waiting"
    /\ status' = [status EXCEPT !.websocketConnected = FALSE]
    /\ subs' = 0
    /\ wsDelay' = scheduleReconnect(wsFailures)
    /\ wsFailures' = wsFailures + 1
    /\ wsDrops' = wsDrops + 1
    /\ UNCHANGED <<readingsByDevice, fetch, response, seenLive, arrivals, batches,
                   missed, received>>
    /\ UNCHANGED <<ingestVars, genVars>>

\* the reconnect timer fires: the client opens a new socket
WsReconnect ==
    /\ ws = "waiting"
    /\ ws' = "connecting"
    /\ UNCHANGED <<readingsByDevice, status, fetch, response, seenLive, arrivals,
                   batches>>
    /\ UNCHANGED <<wsVars, received>>
    /\ UNCHANGED <<ingestVars, genVars>>

\* the k-th reading another publisher sends for a device
LiveObj(d, k) ==
    Raw([deviceId |-> JNum(d), timestamp |-> JIso(k),
         temperatura |-> JNum(k % 40), humedad |-> JNum(k % 7)])

Appended(d) ==
    IF KeyOf(JNum(d)) \in DOMAIN arrivals THEN Len(arrivals[KeyOf(JNum(d))]) ELSE 0

\* a message with one object arrives on the subscription
StompSingle(d) ==
    /\ ws = "connected"
    /\ Appended(d) < MaxAppend
    /\ Subscriber(WsBody("object", <<LiveObj(d, Appended(d) + 1)>>))
    /\ UNCHANGED <<ws, fetch, response, seenLive, batches>>
    /\ UNCHANGED <<ingestVars, genVars>>
    /\ UNCHANGED wsVars

\* a message with an array of two objects arrives on the subscription
StompPair(d) ==
    /\ ws = "connected"
    /\ Appended(d) + 2 <= MaxAppend
    /\ Subscriber(WsBody("array", <<LiveObj(d, Appended(d) + 1),
                                    LiveObj(d, Appended(d) + 2)>>))
    /\ UNCHANGED <<ws, fetch, response, seenLive, batches>>
    /\ UNCHANGED <<ingestVars, genVars>>
    /\ UNCHANGED wsVars

\* the device of another publisher
BatchDevice == DEVICE_ID + 8

\* a message with an array of BatchLen objects arrives on the subscription
StompBatch ==
    /\ ws = "connected"
    /\ batches < MaxBatches
    /\ batches' = batches + 1
    /\ Subscriber(WsBody("array", [k \in 1..BatchLen |-> LiveObj(BatchDevice, k)]))
    /\ UNCHANGED <<ws, fetch, response, seenLive>>
    /\ UNCHANGED <<ingestVars, genVars>>
    /\ UNCHANGED wsVars

\* the device of a publisher whose numeric fields are not always numbers
OddDevice == DEVICE_ID + 4

\* what such a publisher puts in a numeric field
OddValues == {JUndefined, JNull, JNum(21), JStr("21"), JStr(""), JStr("abc")}

OddReadings ==
    {Raw([deviceId |-> JNum(OddDevice), timestamp |-> JIso(1),
          temperatura |-> t, temperature |-> f, humedad |-> h]) :
        t \in OddValues, f \in {JUndefined, JNull}, h \in {JNum(40), JStr("abc")}}

\* a message with one object of that publisher arrives on the subscription
StompOdd ==
    /\ ws = "connected"
    /\ Appended(OddDevice) < MaxOdd
    /\ \E raw \in OddReadings : Subscriber(WsBody("object", <<raw>>))
    /\ UNCHANGED <<ws, fetch, response, seenLive, batches>>
    /\ UNCHANGED <<ingestVars, genVars>>
    /\ UNCHANGED wsVars

\* the device ids of publishers that name the device in different ways;
\* IdDispositivo is any Integer, 0 included
AliasIds == {JNum(0), JNum(7)}

\* readings that carry the device under one alias key, and readings that
\* carry it under deviceId with another id under idDispositivo
AliasReadings ==
    {Raw([deviceId |-> d, timestamp |-> JIso(1), temperatura |-> JNum(21),
          humedad |-> JNum(40)]) : d \in AliasIds}
    \cup {Raw([idDispositivo |-> d, timestamp |-> JIso(2), temperatura |-> JNum(21),
               humedad |-> JNum(40)]) : d \in AliasIds}
    \cup {Raw([IdDispositivo |-> d, timestamp |-> JIso(3), temperatura |-> JNum(21),
               humedad |-> JNum(40)]) : d \in AliasIds}
    \cup {Raw([deviceID |-> d, timestamp |-> JIso(4), temperatura |-> JNum(21),
               humedad |-> JNum(40)]) : d \in AliasIds}
    \cup {Raw([deviceId |-> d, idDispositivo |-> JNum(8), timestamp |-> JIso(5),
               temperatura |-> JNum(21), humedad |-> JNum(40)]) : d \in AliasIds}

\* the readings appended since the series were last replaced
Arrived ==
    Cardinality(UNION {{<<key, j>> : j \in 1..Len(arrivals[key])} : key \in DOMAIN arrivals})

\* a message with one object of such a publisher arrives on the subscription
StompAlias ==
    /\ ws = "connected"
    /\ Arrived < MaxAlias
    /\ \E raw \in AliasReadings : Subscriber(WsBody("object", <<raw>>))
    /\ UNCHANGED <<ws, fetch, response, seenLive, batches>>
    /\ UNCHANGED <<ingestVars, genVars>>
    /\ UNCHANGED wsVars

\* bodies that are not an object or an array of objects: the empty body, text
\* that is not JSON, the JSON literal null, and a JSON number, which has none
\* of the keys normalizeReading reads
UnstructuredBodies ==
    {WsBody(kind, <<>>) : kind \in {"empty", "malformed", "null"}}
    \cup {WsBody("scalar", <<NoKeys>>)}

\* such a message arrives on the subscription
StompUnstructured ==
    /\ ws = "connected"
    /\ \E body \in UnstructuredBodies :
           /\ body.kind = "scalar" => Arrived < MaxOdd
           /\ Subscriber(body)
    /\ UNCHANGED <<ws, fetch, response, seenLive, batches>>
    /\ UNCHANGED <<ingestVars, genVars>>
    /\ UNCHANGED wsVars

-----------------------------------------------------------------------------
(* Simulator (SensorSimulatorApplication): main, publishLoop, AppConfig *)

\* PUBLISH_INTERVAL_SECONDS as the environment may set it; 5 is the default
Intervals == {-1, 0, 1, 5}

PLAIN_URL == "tcp://activemq:61616"
FAILOVER_URL == "failover:(tcp://activemq:61616)"
Urls == {PLAIN_URL, FAILOVER_URL}

\* brokerUrl.startsWith("failover:(")
startsWithFailover(brokerUrl) == brokerUrl = FAILOVER_URL

\* initialReconnectDelay=1000 in the options failoverUrl appends
INITIAL_RECONNECT_DELAY == 1000

\* the failover transport's own initialReconnectDelay, in force when the
\* configured URL is a failover URL that does not set the option
DEFAULT_INITIAL_RECONNECT_DELAY == 10

\* Thread.sleep(2_000L) after a JMSException
ERROR_SLEEP_MS == 2000

\* AppConfig.failoverUrl: the options of the transport behind the connection
failoverUrl(brokerUrl) ==
    IF startsWithFailover(brokerUrl)
    THEN [maxReconnectAttempts |-> -1,
          initialReconnectDelay |-> DEFAULT_INITIAL_RECONNECT_DELAY,
          useExponentialBackOff |-> TRUE]
    ELSE [maxReconnectAttempts |-> -1,
          initialReconnectDelay |-> INITIAL_RECONNECT_DELAY,
          useExponentialBackOff |-> TRUE]

\* the check of AppConfig.load that lets 0 through
loadThrows_negativeOnly(intervalSeconds) == intervalSeconds < 0

\* AppConfig.load: if (intervalSeconds <= 0) throw new IllegalArgumentException
loadThrows(intervalSeconds) == intervalSeconds <= 0

NoConfig == [intervalSeconds |-> 0, brokerUrl |-> "unset"]
NoSample == [tick |-> 0, body |-> JsonNull, builtUp |-> FALSE, builtEpoch |-> 0,
             held |-> FALSE]

\* main, lines 26-41: the configuration is read from the environment
GenLoad ==
    /\ gpc = "start"
    /\ \E iv \in Intervals, url \in Urls :
           /\ config' = [intervalSeconds |-> iv, brokerUrl |-> url]
           /\ IF loadThrows(iv)
              THEN /\ gpc' = "aborted"
                   /\ reconnectDelay' = reconnectDelay
              ELSE /\ gpc' = "connecting"
                   /\ reconnectDelay' = failoverUrl(url).initialReconnectDelay
    /\ UNCHANGED <<link, epoch, gclock, failStreak, firstFailAt, genFailures,
                   sample, published>>
    /\ UNCHANGED <<ingestVars, clientVars>>

\* the broker goes away, comes back, or starts or stops refusing connections
BrokerChange ==
    /\ epoch < MaxOutages
    /\ \E l \in {"up", "down", "refusing"} \ {link} : link' = l
    /\ epoch' = epoch + 1
    /\ UNCHANGED <<gpc, config, gclock, reconnectDelay, failStreak, firstFailAt,
                   genFailures, sample, published>>
    /\ UNCHANGED <<ingestVars, clientVars>>

\* createConnection, createSession, start, createProducer succeed
GenConnect ==
    /\ gpc = "connecting"
    /\ link = "up"
    /\ gpc' = "build"
    /\ failStreak' = 0
    /\ reconnectDelay' = failoverUrl(config.brokerUrl).initialReconnectDelay
    /\ UNCHANGED <<config, link, epoch, gclock, firstFailAt, genFailures, sample,
                   published>>
    /\ UNCHANGED <<ingestVars, clientVars>>

\* the failover transport cannot reach the broker: it waits reconnectDelay,
\* doubles it (useExponentialBackOff) and tries again, inside the JMS call
GenTransportRetry ==
    /\ gpc \in {"connecting", "send"}
    /\ link = "down"
    /\ genFailures < MaxGenFailures
    /\ genFailures' = genFailures + 1
    /\ failStreak' = failStreak + 1
    /\ firstFailAt' = IF failStreak = 0 THEN gclock ELSE firstFailAt
    /\ gclock' = gclock + reconnectDelay
    /\ reconnectDelay' = IF failoverUrl(config.brokerUrl).useExponentialBackOff
                         THEN reconnectDelay * 2 ELSE reconnectDelay
    /\ UNCHANGED <<gpc, config, link, epoch, sample, published>>
    /\ UNCHANGED <<ingestVars, clientVars>>

\* catch (JMSException ex) that ends the process instead of looping
GenCatch_exits ==
    /\ gpc \in {"connecting", "send"}
    /\ link = "refusing"
    /\ genFailures < MaxGenFailures
    /\ genFailures' = genFailures + 1
    /\ failStreak' = failStreak + 1
    /\ firstFailAt' = IF failStreak = 0 THEN gclock ELSE firstFailAt
    /\ gpc' = "terminated"
    /\ UNCHANGED <<config, link, epoch, gclock, reconnectDelay, sample, published>>
    /\ UNCHANGED <<ingestVars, clientVars>>

\* a JMS call throws JMSException: main logs simulator_connection_error,
\* sleeps 2 s and opens a new connection
GenCatch ==
    /\ gpc \in {"connecting", "send"}
    /\ link = "refusing"
    /\ genFailures < MaxGenFailures
    /\ genFailures' = genFailures + 1
    /\ failStreak' = failStreak + 1
    /\ firstFailAt' = IF failStreak = 0 THEN gclock ELSE firstFailAt
    /\ gclock' = gclock + ERROR_SLEEP_MS
    /\ gpc' = "connecting"
    /\ reconnectDelay' = failoverUrl(config.brokerUrl).initialReconnectDelay
    /\ sample' = [sample EXCEPT !.held = FALSE]
    /\ UNCHANGED <<config, link, epoch, published>>
    /\ UNCHANGED <<ingestVars, clientVars>>

\* publishLoop: buildPayload, createTextMessage
GenBuild ==
    /\ gpc = "build"
    /\ Len(published) < MaxTicks
    /\ sample' = [tick |-> sample.tick + 1, body |-> buildPayload(sample.tick + 1),
                  builtUp |-> link = "up", builtEpoch |-> epoch, held |-> TRUE]
    /\ gpc' = "send"
    /\ UNCHANGED <<config, link, epoch, gclock, reconnectDelay, failStreak,
                   firstFailAt, genFailures, published>>
    /\ UNCHANGED <<ingestVars, clientVars>>

\* publishLoop: producer.send(message) reaches the broker
GenSend ==
    /\ gpc = "send"
    /\ link = "up"
    /\ queue' = Append(queue, [mid |-> sent + 1, body |-> sample.body])
    /\ sent' = sent + 1
    /\ published' = Append(published,
                           [tick |-> sample.tick, builtUp |-> sample.builtUp,
                            builtEpoch |-> sample.builtEpoch, sentEpoch |-> epoch,
                            at |-> gclock, failuresBefore |-> genFailures])
    /\ sample' = [sample EXCEPT !.held = FALSE]
    /\ failStreak' = 0
    /\ reconnectDelay' = failoverUrl(config.brokerUrl).initialReconnectDelay
    /\ gpc' = "sleep"
    /\ UNCHANGED <<config, link, epoch, gclock, firstFailAt, genFailures>>
    /\ UNCHANGED <<pc, cur, entity, log, acked, origin, failedSaves, store, nextId,
                   now, storeUp, hubUp, hub, failures>>
    /\ UNCHANGED clientVars

\* publishLoop: Thread.sleep(config.intervalSeconds() * 1_000L)
GenSleep ==
    /\ gpc = "sleep"
    /\ gclock' = gclock + config.intervalSeconds * 1000
    /\ gpc' = "build"
    /\ UNCHANGED <<config, link, epoch, reconnectDelay, failStreak, firstFailAt,
                   genFailures, sample, published>>
    /\ UNCHANGED <<ingestVars, clientVars>>

\* the simulator process has not started
InitGenerator ==
    /\ gpc = "start"
    /\ config = NoConfig
    /\ link = "up"
    /\ epoch = 0
    /\ gclock = 0
    /\ reconnectDelay = 0
    /\ failStreak = 0
    /\ firstFailAt = 0
    /\ genFailures = 0
    /\ sample = NoSample
    /\ published = <<>>

-----------------------------------------------------------------------------

InitClient ==
    /\ readingsByDevice = EmptyMap
    /\ status = [backendConnected |-> FALSE, websocketConnected |-> FALSE,
                 lastReading |-> NoReading, error |-> JNull]
    /\ ws = "connecting"
    /\ fetch = "pending"
    /\ response = NoResponse
    /\ seenLive = {}
    /\ arrivals = EmptyMap
    /\ batches = 0
    /\ subs = 0
    /\ wsDelay = 0
    /\ wsFailures = 0
    /\ wsDrops = 0
    /\ missed = {}
    /\ received = NoBody

InitListeners ==
    /\ queue = <<>>
    /\ pc = [i \in Instances |-> "idle"]
    /\ cur = [i \in Instances |-> NoMsg]
    /\ entity = [i \in Instances |-> NoEntity]
    /\ log = LogLine("none", NoMsg)
    /\ failedSaves = {}
    /\ storeUp = TRUE
    /\ hubUp = TRUE
    /\ hub = <<>>
    /\ failures = 0

\* the backend starts on an empty table; the dashboard has just been mounted
Init ==
    /\ InitListeners
    /\ InitGenerator
    /\ InitClient
    /\ sent = 0
    /\ acked = {}
    /\ origin = <<>>
    /\ store = <<>>
    /\ nextId = 1
    /\ now = 10

\* the messages and rows of PreRows samples ingested before the dashboard opens
PreMsgs == [j \in 1..PreRows |-> [mid |-> j, body |-> buildPayload(j)]]
PreStore ==
    [j \in 1..PreRows |-> [toEntity(buildPayload(j), 10 + j - 1) EXCEPT !.id = j]]

\* the dashboard is mounted after the simulator has run for PreRows ticks
InitDash ==
    /\ InitListeners
    /\ InitGenerator
    /\ InitClient
    /\ sent = PreRows
    /\ acked = {PreMsgs[j] : j \in 1..PreRows}
    /\ origin = PreMsgs
    /\ store = PreStore
    /\ nextId = PreRows + 1
    /\ now = 10 + PreRows

Next ==
    \/ \E b \in Payloads : Publish(b)
    \/ \E i \in Instances : Receive(i)
    \/ \E i \in Instances : ConsumeMap(i)
    \/ \E i \in Instances : ConsumeSave(i)
    \/ \E i \in Instances : ConsumeBroadcast(i)
    \/ StoreToggle
    \/ HubToggle

Spec == Init /\ [][Next]_vars

\* one listener fed by the simulator, one dashboard subscribed
\* the dashboard has connected to the hub before the simulator starts
InitLoad ==
    /\ InitListeners
    /\ InitGenerator
    /\ readingsByDevice = EmptyMap
    /\ status = [backendConnected |-> FALSE, websocketConnected |-> TRUE,
                 lastReading |-> NoReading, error |-> JNull]
    /\ ws = "connected"
    /\ fetch = "pending"
    /\ response = NoResponse
    /\ seenLive = {}
    /\ arrivals = EmptyMap
    /\ batches = 0
    /\ subs = 1
    /\ wsDelay = 0
    /\ wsFailures = 0
    /\ wsDrops = 0
    /\ missed = {}
    /\ received = NoBody
    /\ sent = 0
    /\ acked = {}
    /\ origin = <<>>
    /\ store = <<>>
    /\ nextId = 1
    /\ now = 10

\* the listeners that run in SpecLoad
LoadInstances == {i \in Instances : \A j \in Instances : i <= j}

NextLoad ==
    \/ SimPublish(MaxLoad)
    \/ \E i \in LoadInstances : Receive(i)
    \/ \E i \in LoadInstances : ConsumeMap(i)
    \/ \E i \in LoadInstances : ConsumeSave(i)
    \/ \E i \in LoadInstances : ConsumeBroadcast(i)

\* two valid messages and two that are rejected
SinglePayloads == {GoodIso, GoodLocal, DevNull, BadDate}

NextSingle ==
    \/ \E b \in SinglePayloads : Publish(b)
    \/ \E i \in LoadInstances : Receive(i)
    \/ \E i \in LoadInstances : ConsumeMap(i)
    \/ \E i \in LoadInstances : ConsumeSave(i)
    \/ \E i \in LoadInstances : ConsumeBroadcast(i)
    \/ StoreToggle
    \/ HubToggle

\* one listener, a store and a topic that may fail
SpecSingle == Init /\ [][NextSingle]_vars

\* a long run of the simulator against one listener and a connected dashboard
SpecLoad == InitLoad /\ [][NextLoad]_vars

NextDash ==
    \/ SimPublish(MaxLive)
    \/ \E i \in Instances : Receive(i)
    \/ \E i \in Instances : ConsumeMap(i)
    \/ \E i \in Instances : ConsumeSave(i)
    \/ \E i \in Instances : ConsumeBroadcast(i)
    \/ FetchServe
    \/ \E kind \in {"network_error", "bad_json"} : FetchFail(kind)
    \/ FetchApply
    \/ onConnect

\* the whole pipeline in front of one dashboard
SpecDash == Init /\ [][NextDash]_vars

NextClient ==
    \/ FetchServe
    \/ \E kind \in {"network_error", "http_error", "bad_json"} : FetchFail(kind)
    \/ FetchApply
    \/ onConnect
    \/ StompSingle(DEVICE_ID)
    \/ StompPair(DEVICE_ID)
    \/ StompBatch

\* one dashboard in front of an idle backend that holds PreRows rows
SpecClient == InitDash /\ [][NextClient]_vars

NextLive ==
    \/ SimPublish(MaxLive)
    \/ \E i \in LoadInstances : Receive(i)
    \/ \E i \in LoadInstances : ConsumeMap(i)
    \/ \E i \in LoadInstances : ConsumeSave(i)
    \/ \E i \in LoadInstances : ConsumeBroadcast(i)
    \/ FetchServe
    \/ \E kind \in {"network_error", "bad_json"} : FetchFail(kind)
    \/ FetchApply
    \/ onConnect
    \/ onWebSocketError
    \/ onStompError
    \/ onWebSocketClose
    \/ WsReconnect

NextOdd ==
    \/ FetchServe
    \/ \E kind \in {"network_error", "http_error", "bad_json"} : FetchFail(kind)
    \/ FetchApply
    \/ onConnect
    \/ StompOdd

\* one dashboard and a publisher of readings with odd numeric fields
SpecOdd == Init /\ [][NextOdd]_vars

NextBodies ==
    \/ FetchServe
    \/ \E kind \in {"network_error", "http_error", "bad_json"} : FetchFail(kind)
    \/ FetchApply
    \/ onConnect
    \/ StompSingle(DEVICE_ID)
    \/ StompUnstructured

\* one dashboard and a topic that also carries bodies without readings
SpecBodies == InitDash /\ [][NextBodies]_vars

NextAlias ==
    \/ FetchServe
    \/ \E kind \in {"network_error", "http_error", "bad_json"} : FetchFail(kind)
    \/ FetchApply
    \/ onConnect
    \/ StompAlias

\* one dashboard and publishers that name the device in different ways
SpecAlias == Init /\ [][NextAlias]_vars

\* the pipeline in front of a dashboard whose connection may drop
SpecLive == Init /\ [][NextLive]_vars

\* a sample of device 1, a sample of device 2 and a sample that is rejected
QueryPayloads == {GoodIso, GoodLocal, Temp150}

NextQuery ==
    \/ \E b \in QueryPayloads : PublishLate(b)
    \/ \E i \in Instances : Receive(i)
    \/ \E i \in Instances : ConsumeMap(i)
    \/ \E i \in Instances : ConsumeSave(i)
    \/ \E i \in Instances : ConsumeBroadcast(i)

\* two listeners ingest further messages into a table that holds PreRows rows
SpecQuery == InitDash /\ [][NextQuery]_vars

NextGen ==
    \/ GenLoad
    \/ BrokerChange
    \/ GenConnect
    \/ GenTransportRetry
    \/ GenCatch
    \/ GenBuild
    \/ GenSend
    \/ GenSleep

\* the simulator alone, in front of a broker that comes and goes
SpecGen == Init /\ [][NextGen]_vars

GenFairness ==
    /\ WF_vars(GenLoad)
    /\ WF_vars(GenConnect)
    /\ WF_vars(GenBuild)
    /\ WF_vars(GenSend)
    /\ WF_vars(GenSleep)

\* the simulator's thread keeps running
FairGen == Init /\ [][NextGen]_vars /\ GenFairness

Fairness ==
    \A i \in Instances :
        /\ WF_vars(Receive(i))
        /\ WF_vars(ConsumeMap(i))
        /\ WF_vars(ConsumeSave(i))
        /\ WF_vars(ConsumeBroadcast(i))

\* a valid, an invalid and an unreadable message
RetryPayloads == {GoodIso, DevNull, Malformed}

NextRetry ==
    \/ \E b \in RetryPayloads : Publish(b)
    \/ \E i \in Instances : Receive(i)
    \/ \E i \in Instances : ConsumeMap(i)
    \/ \E i \in Instances : ConsumeSave(i)
    \/ \E i \in Instances : ConsumeBroadcast(i)
    \/ StoreToggle
    \/ HubToggle

\* the listener threads keep running: every enabled step of consume is taken
FairSpec == Init /\ [][NextRetry]_vars /\ Fairness

-----------------------------------------------------------------------------
(* Properties *)

Rows == {store[j] : j \in 1..Len(store)}
Broadcasts == {hub[k] : k \in 1..Len(hub)}
Persisted == {origin[j] : j \in 1..Len(origin)}
Queued == {queue[k] : k \in 1..Len(queue)}
InFlight == {cur[i] : i \in {j \in Instances : pc[j] # "idle"}}

\* C1: every response sent to /topic/readings is the response of a row that
\* is already in sensor_readings.
C1_PersistBeforeBroadcast ==
    \A r \in Broadcasts : \E row \in Rows : fromEntity(row) = r

C1_Witness == hub # <<>>

InDomain(r) ==
    /\ r.deviceId[1] = "num"
    /\ r.temperature[1] = "num"
    /\ r.temperature[2] >= TEMP_MIN /\ r.temperature[2] <= TEMP_MAX
    /\ r.humidity[1] = "num"
    /\ r.humidity[2] >= HUM_MIN /\ r.humidity[2] <= HUM_MAX

Poison(b) == b.kind = "object" /\ (b.temperatura = JNum(150) \/ b.IdDispositivo = JNull)

FieldsValid(b) ==
    /\ b.kind = "object"
    /\ b.IdDispositivo[1] = "num"
    /\ b.temperatura[1] = "num"
    /\ b.temperatura[2] >= TEMP_MIN /\ b.temperatura[2] <= TEMP_MAX
    /\ b.humedad[1] = "num"
    /\ b.humedad[2] >= HUM_MIN /\ b.humedad[2] <= HUM_MAX

TimestampAccepted(b) == b.fechaGeneracion[1] \in {"iso", "local"}

SameValues(r, b) ==
    /\ r.temperature = b.temperatura
    /\ r.humidity = b.humedad
    /\ r.deviceId = b.IdDispositivo

\* C4 as stated: a payload with valid fields and a non-null timestamp is
\* never rejected.
C4_NonNullTimestampAccepted ==
    log.event = "jms_reading_rejected" =>
        ~(FieldsValid(log.msg.body) /\ ~IsNullish(log.msg.body.fechaGeneracion))

\* C4 amended: a payload with valid fields and a timestamp in one of the two
\* accepted formats is never rejected; the row inserted for it and the
\* response broadcast for it carry its temperature, humidity and device id;
\* and when its consume returns it has been inserted and broadcast.
C4_ValidPreserved ==
    /\ log.event = "jms_reading_rejected" =>
           ~(FieldsValid(log.msg.body) /\ TimestampAccepted(log.msg.body))
    /\ \A j \in 1..Len(store) :
           /\ SameValues(store[j], origin[j].body)
           /\ \A r \in Broadcasts : r.id = store[j].id => SameValues(r, origin[j].body)
    /\ \A m \in acked :
           FieldsValid(m.body) /\ TimestampAccepted(m.body) =>
               \E j \in 1..Len(store) :
                   /\ origin[j] = m
                   /\ \E r \in Broadcasts : r.id = store[j].id

C4_Witness ==
    \E m \in acked : m.body = GoodLocal /\ m \in Persisted

\* C5: a malformed text message is logged as rejected and acknowledged; it is
\* never reported as failed and never put back on the queue.
C5_MalformedDropped ==
    log.msg.body.kind = "malformed" =>
        /\ log.event = "jms_reading_rejected"
        /\ log.msg \in acked
        /\ log.msg \notin Queued

Invalid(b) ==
    b.kind # "malformed"
    /\ (validatePayloadThrows(b) \/ parseGeneratedAtThrows(b.fechaGeneracion))

\* C6: when a parsed message fails validation or its timestamp matches neither
\* format, consume logs jms_reading_rejected and returns: the message is
\* acknowledged, the queue, the table and the topic are unchanged, and an
\* acknowledged message is never queued or delivered again.
C6_ValidationFailureDropped ==
    /\ [](\A m \in acked : m \notin Queued /\ m \notin InFlight)
    /\ [][\A i \in Instances :
            (pc[i] = "received" /\ Invalid(cur[i].body) /\ pc'[i] # "received") =>
                /\ log' = LogLine("jms_reading_rejected", cur[i])
                /\ pc'[i] = "idle"
                /\ cur[i] \in acked'
                /\ queue' = queue
                /\ store' = store
                /\ hub' = hub
                /\ failures' = failures]_vars

C6_Witness ==
    /\ log.event = "jms_reading_rejected"
    /\ log.msg.body = BadDate
    /\ \E m \in acked : m.body = LowBlank

\* C7: a failure of save is not swallowed: consume logs jms_reading_failed and
\* throws, nothing is inserted, the message is not acknowledged and is back at
\* the head of the queue; and if the store stays available from some point on,
\* every message whose save failed is eventually inserted.
C7_StoreFailureRedelivered ==
    /\ [][\A i \in Instances :
            (pc[i] = "mapped" /\ ~storeUp /\ pc'[i] # "mapped") =>
                /\ log' = LogLine("jms_reading_failed", cur[i])
                /\ queue' = <<cur[i]>> \o queue
                /\ cur[i] \notin acked'
                /\ store' = store]_vars
    /\ (<>[]storeUp) => <>[](failedSaves \subseteq Persisted)

C7_Witness ==
    \E m \in failedSaves : m \in Persisted

-----------------------------------------------------------------------------
(* Historical query *)

Newer(X) == {q \in Rows : q.receivedAt >= X.receivedAt /\ q.id # X.id}

InList(list, X) == \E k \in 1..Len(list) : list[k] = X

-----------------------------------------------------------------------------
(* Device series *)

\* C8: whatever the snapshot and the live messages brought, no series of
\* readingsByDevice holds more than 60 readings.
C8_SeriesBounded ==
    \A key \in DOMAIN readingsByDevice : Len(readingsByDevice[key]) <= MAX_POINTS

C8_Witness ==
    /\ fetch = "done"
    /\ response.kind = "ok"
    /\ \E key \in DOMAIN arrivals : Len(arrivals[key]) > MAX_POINTS
    /\ batches > 0

\* C9: a series built from empty by k appends holds the last min(k, 60)
\* appended readings, in the order they were appended.
C9_FifoEviction ==
    /\ DOMAIN readingsByDevice = DOMAIN arrivals
    /\ \A key \in DOMAIN arrivals :
           readingsByDevice[key] = LastN(arrivals[key], MAX_POINTS)

C9_Witness ==
    \E key \in DOMAIN arrivals :
        /\ Len(arrivals[key]) = MaxAppend
        /\ Len(readingsByDevice[key]) = MAX_POINTS
        /\ readingsByDevice[key][1] = arrivals[key][MaxAppend - MAX_POINTS + 1]

Occurrences(series, r) == Cardinality({j \in 1..Len(series) : series[j] = r})

SeriesOf(r) ==
    IF KeyOf(r.deviceId) \in DOMAIN readingsByDevice
    THEN readingsByDevice[KeyOf(r.deviceId)] ELSE <<>>

\* C10 as stated: once the snapshot has been applied, a sample that is in the
\* snapshot and was also delivered live is twice in its series.
C10_SnapshotAndLiveTwice ==
    (fetch = "done" /\ response.kind = "ok") =>
        \A k \in 1..Len(response.payload) :
            response.payload[k] \in seenLive =>
                LET r == normalizeReading(ResponseJson(response.payload[k]), now)
                IN  Occurrences(SeriesOf(r), r) >= 2

-----------------------------------------------------------------------------
(* Simulator *)

\* C11 as stated: when the simulator is about to make the connection attempt
\* that follows 3 consecutive failures, at least 1000+2000+4000 ms have
\* passed since the first of them.
C11_FourthAttemptAfter7000 ==
    (gpc = "connecting" /\ failStreak = 3) => gclock - firstFailAt >= 7000

\* C12: a failed attempt or send leaves the simulator at a JMS call it will
\* try again, never ended; two samples published with no failure between them
\* are one interval apart; and if the broker stays up from some point on, a
\* simulator that started publishes every sample it has to.
C12_TransportFailureNeverTerminates ==
    /\ [][genFailures' > genFailures => gpc' \in {"connecting", "send"}]_vars
    /\ [](\A k \in 1..(Len(published) - 1) :
              published[k + 1].failuresBefore = published[k].failuresBefore =>
                  published[k + 1].at - published[k].at
                      = config.intervalSeconds * 1000)
    /\ (<>[](link = "up")) =>
           <>(gpc = "aborted" \/ Len(published) = MaxTicks)

C12_Witness ==
    /\ Len(published) = 2
    /\ published[1].failuresBefore >= 2
    /\ published[2].failuresBefore = published[1].failuresBefore
    /\ \E k \in 1..2 : published[k].tick > k

\* C13: with an interval <= 0 the simulator ends in load: it never reaches a
\* JMS call, builds nothing and publishes nothing; with an interval > 0 load
\* does not end it.
C13_InvalidIntervalAborts ==
    /\ []((gpc # "start" /\ config.intervalSeconds <= 0) =>
              /\ gpc = "aborted"
              /\ genFailures = 0 /\ failStreak = 0
              /\ sample = NoSample /\ published = <<>> /\ queue = <<>>)
    /\ []((gpc # "start" /\ config.intervalSeconds > 0) => gpc # "aborted")
    /\ [][gpc = "aborted" => gpc' = "aborted"]_vars

C13_Witness ==
    /\ gpc = "aborted"
    /\ config.intervalSeconds = 0
    /\ link # "up"

\* C14 as stated: every published sample was built while the broker was
\* reachable, and the broker did not change state between build and publish.
C14_PublishedBuiltWhileConnected ==
    \A k \in 1..Len(published) :
        /\ published[k].builtUp
        /\ published[k].builtEpoch = published[k].sentEpoch

-----------------------------------------------------------------------------
(* Historical query, with and without a device *)

QueryDevices == {JNum(1), JNum(2), JNum(3)}

Descending(list) ==
    \A k \in 1..(Len(list) - 1) : list[k].receivedAt >= list[k + 1].receivedAt

\* list is the newest rows of the set candidates, at most 50 of them
NewestOf(list, candidates) ==
    /\ Len(list) = (IF Cardinality(candidates) < 50 THEN Cardinality(candidates)
                    ELSE 50)
    /\ \A k \in 1..Len(list) : list[k] \in candidates
    /\ Cardinality({list[k] : k \in 1..Len(list)}) = Len(list)
    /\ Descending(list)
    /\ \A c \in candidates :
           InList(list, c) \/ list[Len(list)].receivedAt >= c.receivedAt

\* C15: /recent and /by-device/{deviceId} return the newest stored samples,
\* at most 50, newest first; /by-device returns only samples of that device.
C15_RecentCappedOrdered ==
    LET responses == {fromEntity(row) : row \in Rows}
    IN  /\ NewestOf(getRecentReadings(store), responses)
        /\ \A d \in QueryDevices :
               NewestOf(getByDevice(store, d), {r \in responses : r.deviceId = d})

C15_Witness ==
    /\ Len(store) > PreRows
    /\ Len(getRecentReadings(store)) = TOP
    /\ Len(getByDevice(store, JNum(1))) = TOP
    /\ Len(getByDevice(store, JNum(2))) = 1
    /\ getRecentReadings(store)[1].deviceId = JNum(2)
    /\ getByDevice(store, JNum(3)) = <<>>

-----------------------------------------------------------------------------
(* Identity *)

\* C16: the ids of sensor_readings are assigned by save, in increasing order
\* of insertion and so pairwise distinct; an entity has no id before save and
\* the id of its row after; a stored row, its id included, never changes.
C16_IdentityAssignedOnce ==
    /\ [](\A j, k \in 1..Len(store) : j < k => store[j].id < store[k].id)
    /\ [](\A j \in 1..Len(store) : store[j].id >= 1 /\ store[j].id < nextId)
    /\ [](\A i \in Instances :
              /\ pc[i] = "mapped" => entity[i].id = 0
              /\ pc[i] = "saved" =>
                     \E j \in 1..Len(store) : store[j] = entity[i])
    /\ [][/\ Len(store') >= Len(store)
          /\ \A j \in 1..Len(store) : store'[j] = store[j]]_vars

C16_Witness ==
    /\ Len(store) >= 2
    /\ \E j, k \in 1..Len(store) : j < k /\ origin[j] = origin[k]
    /\ \E i \in Instances : pc[i] = "saved"

\* the steps the connection of the STOMP client may take
WsStep ==
    \/ ws = "connecting" /\ ws' \in {"connected", "failing", "waiting"}
    \/ ws = "connected" /\ ws' \in {"failing", "waiting"}
    \/ ws = "failing" /\ ws' = "waiting"
    \/ ws = "waiting" /\ ws' = "connecting"

\* C17: the live subscription goes from disconnected through connecting to
\* connected; after a drop or an error the live flag is false and the
\* reconnect is scheduled 3000 ms later however many attempts failed in a
\* row; whenever the client is connected it holds one subscription to
\* /topic/readings
C17_FixedDelayResubscribe ==
    /\ [][ws' # ws => WsStep]_vars
    /\ [](ws \in {"failing", "waiting"} => ~status.websocketConnected)
    /\ [](ws = "waiting" => wsDelay = 3000)
    /\ [](ws = "connected" => subs = 1 /\ status.websocketConnected)
    /\ [][ws = "waiting" /\ ws' = "connecting" => wsDelay' = 3000]_vars

\* the client waits to reconnect after two failed attempts in a row
C17_Witness == ws = "waiting" /\ wsFailures = 2 /\ wsDelay = 3000

\* the series whose tracked arrivals grow in a step end with the new arrival
LiveAppended ==
    \A key \in DOMAIN arrivals' :
        (key \notin DOMAIN arrivals \/ arrivals'[key] # arrivals[key])
            => /\ key \in DOMAIN readingsByDevice'
               /\ Last(readingsByDevice'[key]) = Last(arrivals'[key])

\* C18: a failed historical fetch (network error, non-OK status, unreadable
\* body) ends in the catch block: it sets backendConnected to false and
\* the error string and leaves readingsByDevice as it was, and every live
\* message received afterwards is still appended to its series
C18_FailedFetchIsNotFatal ==
    /\ [][(fetch = "responded" /\ fetch' = "done" /\ response.kind # "ok")
            => /\ ~status'.backendConnected
               /\ status'.error # JNull
               /\ readingsByDevice' = readingsByDevice]_vars
    /\ [][(fetch = "done" /\ response.kind # "ok" /\ arrivals' # arrivals)
            => LiveAppended]_vars

\* the fetch failed with series on display, and a live message arrived later
C18_Witness ==
    /\ fetch = "done"
    /\ response.kind = "http_error"
    /\ status.backendConnected
    /\ Appended(DEVICE_ID) >= 2

\* a value that is a number, or a string that spells one
IsFiniteNumber(v) == v[1] = "num" \/ v = JStr("21")

\* the reading a step of the subscription callback put at the end of a series
StoredFor(raw) == Last(readingsByDevice'[KeyOf(raw.deviceId)])

\* C19: a temperature or humidity value that is not a finite number is
\* stored as null, and the reading is appended to the series of its device
C19_BadNumberBecomesNull ==
    [][(arrivals' # arrivals /\ fetch' = fetch /\ received'.kind = "object")
        => LET raw == received'.items[1]
               t == Coalesce(raw.temperatura, raw.temperature)
               h == Coalesce(raw.humedad, raw.humidity)
           IN  /\ KeyOf(raw.deviceId) \in DOMAIN readingsByDevice'
               /\ StoredFor(raw).timestamp = raw.timestamp
               /\ ~IsFiniteNumber(t) => StoredFor(raw).temperatura = JNull
               /\ ~IsFiniteNumber(h) => StoredFor(raw).humedad = JNull]_vars

\* the responses broadcast while the dashboard had no subscription
Missed == {X \in Broadcasts : X.id \in missed}

\* C20: a response broadcast while the dashboard had no subscription is never
\* delivered to it by the subscription; the history is requested once, so
\* such a reading is in a series only if the one snapshot contained it
C20_NoReplayAfterReconnect ==
    /\ [](\A X \in seenLive : X.id \notin missed)
    /\ [](\A X \in Missed :
            LET r == normalizeReading(ResponseJson(X), now)
            IN  InList(SeriesOf(r), r)
                    => /\ fetch = "done"
                       /\ response.kind = "ok"
                       /\ InList(response.payload, X))
    /\ [][fetch # "pending" => fetch' # "pending"]_vars

\* the dashboard is connected again, the snapshot is applied, and a reading
\* broadcast during the gap is in no series
C20_Witness ==
    /\ ws = "connected"
    /\ wsDrops >= 1
    /\ fetch = "done"
    /\ seenLive # {}
    /\ \E X \in Missed :
           LET r == normalizeReading(ResponseJson(X), now)
           IN  ~InList(SeriesOf(r), r)

-----------------------------------------------------------------------------
(* One listener *)

\* the rows inserted for a message
RowsOf(m) == {store[j] : j \in {k \in 1..Len(store) : origin[k] = m}}

WasBroadcast(m) == \E row \in RowsOf(m) : \E r \in Broadcasts : r.id = row.id

\* C21: one listener handles the messages in the order of the queue: the rows
\* are in the order in which their messages were published, the responses
\* are broadcast in the order of their rows, and when a later message has a
\* row every earlier message that has a row has been broadcast
C21_DeliveryOrderKept ==
    /\ \A j, k \in 1..Len(store) :
           j < k => /\ origin[j].mid <= origin[k].mid
                    /\ store[j].id < store[k].id
    /\ \A j, k \in 1..Len(hub) : j < k => hub[j].id < hub[k].id
    /\ \A j, k \in 1..Len(store) :
           origin[j].mid < origin[k].mid => WasBroadcast(origin[j])

\* two messages were waiting together and both went through
C21_Witness ==
    /\ Len(store) >= 2
    /\ Len(hub) >= 2
    /\ origin[1].mid < origin[Len(store)].mid

-----------------------------------------------------------------------------
(* Dashboard state *)

\* C22 as stated: both producers only append: in every step each series
\* stays in the map, and a reading of a series is still in it afterwards
\* unless the series is at its capacity of 60 after the step
C22_OnlyAppendOrEvict ==
    [][\A key \in DOMAIN readingsByDevice :
          /\ key \in DOMAIN readingsByDevice'
          /\ \/ Len(readingsByDevice'[key]) = MAX_POINTS
             \/ \A j \in 1..Len(readingsByDevice[key]) :
                    InList(readingsByDevice'[key], readingsByDevice[key][j])]_vars

\* the readings of a message, normalized
Normalized(body) == [k \in 1..Len(body.items) |-> normalizeReading(body.items[k], now)]

-----------------------------------------------------------------------------
(* Timestamp of a row *)

\* C24: the generatedAt of a row is the instant its text spells when the text
\* is an ISO instant, and otherwise the local date and time it spells, taken
\* in the zone of the listener; a message whose text is neither has no row
\* and no broadcast, and its consume logs jms_reading_rejected and returns
C24_InstantFirstThenLocal ==
    /\ [](\A j \in 1..Len(store) :
            LET text == origin[j].body.fechaGeneracion
            IN  /\ InstantParses(text) \/ LocalParses(text)
                /\ InstantParses(text) => store[j].generatedAt = text[2]
                /\ ~InstantParses(text) => store[j].generatedAt = text[2] - ZONE_OFFSET
                /\ \A r \in Broadcasts :
                       r.id = store[j].id => r.generatedAt = store[j].generatedAt)
    /\ [][\A i \in Instances :
            (/\ pc[i] = "received"
             /\ cur[i].body.kind = "object"
             /\ ~validatePayloadThrows(cur[i].body)
             /\ parseGeneratedAtThrows(cur[i].body.fechaGeneracion)
             /\ pc'[i] # "received")
                => /\ log' = LogLine("jms_reading_rejected", cur[i])
                   /\ store' = store
                   /\ hub' = hub
                   /\ pc'[i] = "idle"]_vars

\* a row came from a local date and time, and a message with an unreadable
\* date has been handled
C24_Witness ==
    /\ \E j \in 1..Len(store) : origin[j].body = GoodLocal
    /\ \E m \in acked : m.body = BadDate

-----------------------------------------------------------------------------
(* Device id aliases *)

Present(v) == ~IsNullish(v)

\* the value of the first alias key that is present in the object
FirstPresent(raw) ==
    IF Present(raw.deviceId) THEN raw.deviceId
    ELSE IF Present(raw.idDispositivo) THEN raw.idDispositivo
    ELSE IF Present(raw.IdDispositivo) THEN raw.IdDispositivo
    ELSE raw.deviceID

\* C25 as stated: the reading appended for a live object carries, as its
\* deviceId, the value of the first alias key present in the object and is
\* at the end of the series of that device, and it has no other fields than
\* deviceId, timestamp, temperatura and humedad
C25_FirstPresentAliasWins ==
    [][(arrivals' # arrivals /\ fetch' = fetch /\ received'.kind = "object")
        => LET raw == received'.items[1]
               id == FirstPresent(raw)
           IN  /\ KeyOf(id) \in DOMAIN readingsByDevice'
               /\ Last(readingsByDevice'[KeyOf(id)]).deviceId = id
               /\ Last(readingsByDevice'[KeyOf(id)]).timestamp = raw.timestamp
               /\ DOMAIN Last(readingsByDevice'[KeyOf(id)])
                      = {"deviceId", "timestamp", "temperatura", "humedad"}]_vars

-----------------------------------------------------------------------------
(* Status *)

\* C26 as stated: status always has backendConnected, websocketConnected and
\* error; a step of the live channel (connect, message, close, error) leaves
\* backendConnected as it was, and an outcome of the historical fetch leaves
\* websocketConnected as it was
C26_FlagsIndependent ==
    /\ []({"backendConnected", "websocketConnected", "error"} \subseteq DOMAIN status)
    /\ [][fetch' = fetch => status'.backendConnected = status.backendConnected]_vars
    /\ [][fetch' # fetch => status'.websocketConnected = status.websocketConnected]_vars

\* C26: status always has backendConnected, websocketConnected and error;
\* connect, close and error of the live channel leave backendConnected as it
\* was, a live message that is appended sets it to true, and an outcome of
\* the historical fetch leaves websocketConnected as it was
C26_FlagsIndependentButMessage ==
    /\ []({"backendConnected", "websocketConnected", "error"} \subseteq DOMAIN status)
    /\ [][(fetch' = fetch /\ arrivals' = arrivals)
            => status'.backendConnected = status.backendConnected]_vars
    /\ [][(fetch' = fetch /\ arrivals' # arrivals) => status'.backendConnected]_vars
    /\ [][fetch' # fetch => status'.websocketConnected = status.websocketConnected]_vars

\* the fetch failed, a later live message set backendConnected, and the
\* connection was lost after that
C26_Witness ==
    /\ fetch = "done"
    /\ response.kind # "ok"
    /\ status.backendConnected
    /\ ~status.websocketConnected
    /\ wsDrops >= 1

\* C27 as stated: after a snapshot that is not empty is applied,
\* status.lastReading is the first, most recent, entry of the snapshot; after
\* a live message is applied it is the last reading of the message
C27_LastReadingIsMostRecent ==
    /\ [][(fetch = "responded" /\ fetch' = "done" /\ response.kind = "ok"
            /\ response.payload # <<>>)
            => status'.lastReading
                   = normalizeReading(ResponseJson(response.payload[1]), now)]_vars
    /\ [][(arrivals' # arrivals /\ fetch' = fetch)
            => status'.lastReading = Last(Normalized(received'))]_vars

-----------------------------------------------------------------------------
(* Persist, then broadcast *)

\* C28: when the broadcast fails after the row was inserted, the row stays,
\* consume logs jms_reading_failed and throws, the message is not
\* acknowledged and is back at the head of the queue; and when a message
\* that already has a row is saved again, a second row with a new, higher id
\* is inserted for it
C28_RowKeptAndInsertedAgain ==
    /\ [][\A i \in Instances :
            (pc[i] = "saved" /\ ~hubUp /\ pc'[i] # "saved") =>
                /\ store' = store
                /\ RowsOf(cur[i]) # {}
                /\ hub' = hub
                /\ log' = LogLine("jms_reading_failed", cur[i])
                /\ cur[i] \notin acked'
                /\ queue' = <<cur[i]>> \o queue]_vars
    /\ [][\A i \in Instances :
            (pc[i] = "mapped" /\ pc'[i] = "saved" /\ RowsOf(cur[i]) # {}) =>
                /\ Len(store') = Len(store) + 1
                /\ SubSeq(store', 1, Len(store)) = store
                /\ origin'[Len(store')] = cur[i]
                /\ \A row \in Rows : row.id < store'[Len(store')].id]_vars

\* one message has two rows
C28_Witness == \E m \in Persisted : Cardinality(RowsOf(m)) >= 2

-----------------------------------------------------------------------------
(* The simulator's payloads at the listener *)

\* a payload as the simulator builds it, and what consume does with it
InContract(p) ==
    /\ p.kind = "object"
    /\ LocalParses(p.fechaGeneracion) /\ ~InstantParses(p.fechaGeneracion)
    /\ p.IdDispositivo = JNum(DEVICE_ID)
    /\ p.temperatura[1] = "num" /\ p.temperatura[2] \in 18..34
    /\ p.humedad[1] = "num" /\ p.humedad[2] \in 30..80
    /\ ~validatePayloadThrows(p)
    /\ ~parseGeneratedAtThrows(p.fechaGeneracion)

\* C29: every message of the simulator has the local date pattern, its
\* device id, a temperature in 18..34 and a humidity in 30..80, and passes
\* validation; none is rejected or fails, and once consume has returned the
\* message has a row whose generatedAt is the local time moved to UTC and the
\* row was broadcast
C29_GeneratedPayloadAccepted ==
    /\ \A j \in 1..Len(queue) : InContract(queue[j].body)
    /\ \A i \in LoadInstances : pc[i] # "idle" => InContract(cur[i].body)
    /\ log.event \notin {"jms_reading_rejected", "jms_reading_failed"}
    /\ \A m \in acked :
           /\ InContract(m.body)
           /\ Cardinality(RowsOf(m)) = 1
           /\ WasBroadcast(m)
           /\ \A row \in RowsOf(m) :
                  /\ row.generatedAt = m.body.fechaGeneracion[2] - ZONE_OFFSET
                  /\ row.deviceId = JNum(DEVICE_ID)
                  /\ row.temperature = m.body.temperatura
                  /\ row.humidity = m.body.humedad

\* two messages of the simulator were consumed
C29_Witness == Cardinality(acked) >= 2 /\ Len(hub) >= 2

-----------------------------------------------------------------------------
(* Live messages without readings *)

====
